---- MODULE Spec2Model ----
(***************************************************************************)
(* ExternalCardDAVWorker (src/MailSync/ExternalCardDAVWorker.cpp): one     *)
(* worker pulls one remote CardDAV collection into the local Contact       *)
(* table.  The model follows run() step by step: resolveAddressBook,       *)
(* runForAddressBook (listing, local etags, diff, batches of 90, stale     *)
(* sweep, upserts, commit, final sweep) and ingestAddressDataNode.         *)
(*                                                                         *)
(* Etags are opaque tokens that the code only compares and orders          *)
(* (map<ETAG,...>); they are modelled as naturals.  Hrefs, unique ids,     *)
(* e-mail addresses and Contact ids are strings, and ids are built by      *)
(* string concatenation exactly as the code builds them.                   *)
(***************************************************************************)
EXTENDS Integers, Sequences, FiniteSets, TLC

\* ------------------------------------------------------------------ bounds
\* remote changes the environment may make over a behaviour
MaxEdits == 1
\* runs of the worker over a behaviour
MaxRuns == 3
\* the bulk import adds up to MaxBulkBatches * BatchCap cards at once
MaxBulkBatches == 2

\* two workers on one store: runs of each worker, and remote changes of each
\* source
PeerRuns == 2
PeerEdits == 1

\* ------------------------------------------------------- program constants
\* MailUtils::chunksOfVector(needed, 90)
BatchCap == 90

EXTERNAL_CARDDAV_SOURCE == "external-carddav"

\* the worker's configuration (constructor arguments)
sourceId == "S"
sourceName == "Work"
sourceUrl == "dav.example/ab"
accountId == "acct"

\* ----------------------------------------------------- the format parser
\* The payload texts the remote collection may hold.  "" is an empty
\* address-data body.
VcfTexts == {"v1", "v2", "v3", "v4", "v5", ""}
BulkVcf == "vp"
\* two cards whose unique ids differ only by a numeric tail: "u1" and "u1-1"
ClashTexts == {"v2", "v6"}

\* VCard(vcardString) with the accessors the worker reads: incomplete(),
\* getUniqueId(), getEmails(), getFormattedName(), getName(), getPhoto(),
\* and DAVUtils::isGroupCard.
VCard(vcf) ==
  CASE vcf = ""   -> [incomplete |-> TRUE, uid |-> "", emails |-> <<>>,
                      fn |-> "", n |-> "", photo |-> "", group |-> FALSE]
    [] vcf = "v1" -> [incomplete |-> FALSE, uid |-> "u1", emails |-> <<"a">>,
                      fn |-> "Ann", n |-> "A;nn", photo |-> "", group |-> FALSE]
    [] vcf = "v2" -> [incomplete |-> FALSE, uid |-> "u1", emails |-> <<"a", "b">>,
                      fn |-> "Team", n |-> "", photo |-> "ph", group |-> TRUE]
    [] vcf = "v3" -> [incomplete |-> FALSE, uid |-> "", emails |-> <<"", "c", "d">>,
                      fn |-> "", n |-> "Cy", photo |-> "", group |-> FALSE]
    [] vcf = "v4" -> [incomplete |-> FALSE, uid |-> "u4", emails |-> <<>>,
                      fn |-> "Dee", n |-> "", photo |-> "", group |-> FALSE]
    [] vcf = "v5" -> [incomplete |-> TRUE, uid |-> "", emails |-> <<>>,
                      fn |-> "", n |-> "", photo |-> "", group |-> FALSE]
    [] vcf = "v6" -> [incomplete |-> FALSE, uid |-> "u1-1", emails |-> <<"e">>,
                      fn |-> "Eve", n |-> "", photo |-> "", group |-> FALSE]
    [] vcf = "v7" -> [incomplete |-> FALSE, uid |-> "x-u7", emails |-> <<"g">>,
                      fn |-> "Gus", n |-> "", photo |-> "", group |-> FALSE]
    [] vcf = "v8" -> [incomplete |-> FALSE, uid |-> "u7", emails |-> <<"h", "i">>,
                      fn |-> "Hal", n |-> "", photo |-> "", group |-> FALSE]
    [] OTHER      -> [incomplete |-> FALSE, uid |-> "", emails |-> <<"p">>,
                      fn |-> "Pat", n |-> "", photo |-> "", group |-> FALSE]

\* ------------------------------------------------------------- the store
\* new Contact(id, accountId, email, CONTACT_MAX_REFS, source): the fields a
\* fresh row has before the worker sets any.
NewContact(acct, email) ==
  [accountId |-> acct, bookId |-> "", email |-> email, name |-> "",
   info |-> [vcf |-> "", href |-> ""], etag |-> 0, hidden |-> FALSE,
   source |-> EXTERNAL_CARDDAV_SOURCE]

\* new ContactBook(bookId, accountId)
NewContactBook(acct) ==
  [accountId |-> acct, source |-> "", url |-> "", ctag |-> ""]

\* store->find<Contact>(Query().equal("id", id)): the row, or no row
HasContact(dbNow, id) == id \in DOMAIN dbNow

\* store->save(contact): insert or overwrite the row with that id
SaveContact(dbNow, id, row) == (id :> row) @@ dbNow

\* DELETE FROM Contact WHERE bookId = ? AND etag = ?
DeleteByEtag(dbNow, bookId, etag) ==
  [i \in {j \in DOMAIN dbNow :
            ~(dbNow[j].bookId = bookId /\ dbNow[j].etag = etag)} |-> dbNow[i]]

\* the statement executed for each etag of a list, in order
RECURSIVE DeleteRange(_, _, _, _, _)
DeleteRange(dbNow, bookId, etags, lo, hi) ==
  IF lo > hi THEN dbNow
  ELSE IF lo = hi THEN DeleteByEtag(dbNow, bookId, etags[lo])
  ELSE LET mid == (lo + hi) \div 2
       IN DeleteRange(DeleteRange(dbNow, bookId, etags, lo, mid),
                      bookId, etags, mid + 1, hi)

DeleteAll(dbNow, bookId, etags) == DeleteRange(dbNow, bookId, etags, 1, Len(etags))

\* SELECT etag FROM Contact WHERE bookId = ?   (collected into a map's keys)
LocalEtags(dbNow, bookId) ==
  {dbNow[i].etag : i \in {j \in DOMAIN dbNow : dbNow[j].bookId = bookId}}

\* ------------------------------------------------- the remote collection
\* The protocol responses are abstracted to the fields the worker reads.
\* `srv` is the remote collection, href -> [etag, vcf].

\* REPORT addressbook-query: for every //D:response node,
\* remote[etag] = href
RemoteListing(srv) ==
  [e \in {srv[h].etag : h \in DOMAIN srv} |->
     CHOOSE h \in DOMAIN srv : srv[h].etag = e]

\* REPORT addressbook-multiget for the hrefs of one chunk: one response
\* node per href, each with getetag, href and address-data
Multiget(srv, chunk) ==
  [i \in 1..Len(chunk) |->
     [etag |-> srv[chunk[i]].etag, href |-> chunk[i], vcf |-> srv[chunk[i]].vcf]]

\* ------------------------------------------------------ the reconciler
MaxKey(S) == IF S = {} THEN 0 ELSE CHOOSE m \in S : \A x \in S : x <= m

\* for (auto & pair : remote) { if (local.count(pair.first)) continue;
\*                              needed.push_back(pair.second); }
\* A std::map is walked in ascending key order: the keys lo..hi in order,
\* the walk of the lower half followed by the walk of the upper half.
RECURSIVE NeededFrom(_, _, _, _)
NeededFrom(lo, hi, remoteMap, localSet) ==
  IF lo > hi THEN <<>>
  ELSE IF lo = hi
       THEN IF lo \in DOMAIN remoteMap /\ lo \notin localSet
            THEN <<remoteMap[lo]>> ELSE <<>>
       ELSE LET mid == (lo + hi) \div 2
            IN NeededFrom(lo, mid, remoteMap, localSet)
                 \o NeededFrom(mid + 1, hi, remoteMap, localSet)

\* mutant: the `continue` for etags already local is lost
NeededOfAll(remoteMap, localSet) ==
  NeededFrom(0, MaxKey(DOMAIN remoteMap), remoteMap, {})

NeededOf(remoteMap, localSet) ==
  NeededFrom(0, MaxKey(DOMAIN remoteMap), remoteMap, localSet)

\* for (auto & pair : local) { if (remote.count(pair.first)) continue;
\*                             deleted.push_back(pair.first); }
RECURSIVE DeletedFrom(_, _, _, _)
DeletedFrom(lo, hi, remoteMap, localSet) ==
  IF lo > hi THEN <<>>
  ELSE IF lo = hi
       THEN IF lo \in localSet /\ lo \notin DOMAIN remoteMap
            THEN <<lo>> ELSE <<>>
       ELSE LET mid == (lo + hi) \div 2
            IN DeletedFrom(lo, mid, remoteMap, localSet)
                 \o DeletedFrom(mid + 1, hi, remoteMap, localSet)

\* mutant: the test on remote.count is inverted
DeletedOfInverted(remoteMap, localSet) ==
  DeletedFrom(0, MaxKey(localSet),
              [e \in localSet \ DOMAIN remoteMap |-> ""], localSet)

DeletedOf(remoteMap, localSet) ==
  DeletedFrom(0, MaxKey(localSet), remoteMap, localSet)

\* MailUtils::chunksOfVector(v, chunkSize): consecutive slices of at most
\* chunkSize elements, the last one possibly shorter
RECURSIVE chunksOfVector(_, _)
chunksOfVector(v, chunkSize) ==
  IF v = <<>> THEN <<>>
  ELSE IF Len(v) > chunkSize
       THEN <<SubSeq(v, 1, chunkSize)>>
              \o chunksOfVector(SubSeq(v, chunkSize + 1, Len(v)), chunkSize)
       ELSE <<v>>

\* mutant: the chunk size is off by one
NeededChunksBy91(v) == chunksOfVector(v, BatchCap + 1)

\* the chunks runForAddressBook loops over
NeededChunks(v) == chunksOfVector(v, BatchCap)

\* --------------------------------------------------------- the ingester
\* "ext-" + sourceId + "-" + (uid.empty() ? href : uid)
BaseId(src, uid, href) ==
  "ext-" \o src \o "-" \o (IF uid = "" THEN href ELSE uid)

\* mutant: every e-mail of a card gets the base id
ContactIdNoSuffix(baseId, i) == baseId

\* (i == 0) ? baseId : baseId + "-" + to_string(i)
ContactId(baseId, i) ==
  IF i = 0 THEN baseId ELSE baseId \o "-" \o ToString(i)

\* json info = {{"vcf", vcardString}, {"href", href}}, plus "photo" when the
\* card has a non-empty one
InfoBlob(vcf, href, photo) ==
  IF photo # "" THEN [vcf |-> vcf, href |-> href, photo |-> photo]
  ELSE [vcf |-> vcf, href |-> href]

\* name = formatted name, falling back to the structured name
DisplayName(vcard) == IF vcard.fn = "" THEN vcard.n ELSE vcard.fn

\* for (size_t i = 0; i < emails.size(); i++): skip empty values, find the
\* Contact by id or make a new one, set info, name, email and etag
RECURSIVE EmailLoop(_, _, _, _, _, _)
EmailLoop(i, acct, dbNow, node, vcard, baseId) ==
  IF i >= Len(vcard.emails) THEN <<>>
  ELSE LET email == vcard.emails[i + 1]
           rest  == EmailLoop(i + 1, acct, dbNow, node, vcard, baseId)
       IN IF email = "" THEN rest
          ELSE LET id   == ContactId(baseId, i)
                   base == IF HasContact(dbNow, id) THEN dbNow[id]
                           ELSE NewContact(acct, email)
                   row  == [base EXCEPT
                              !.info  = InfoBlob(node.vcf, node.href, vcard.photo),
                              !.name  = DisplayName(vcard),
                              !.email = email,
                              !.etag  = node.etag]
               IN <<[id |-> id, row |-> row]>> \o rest

\* mutant: a card without e-mail addresses is kept as one row with an empty
\* address
ingestKeepsEmailless(src, acct, dbNow, node) ==
  LET vcard  == VCard(node.vcf)
      none   == [isGroup |-> FALSE, contacts |-> <<>>]
      baseId == BaseId(src, vcard.uid, node.href)
  IN IF node.vcf = "" THEN none
     ELSE IF vcard.incomplete THEN none
     ELSE IF vcard.emails = <<>>
          THEN [isGroup |-> vcard.group,
                contacts |-> <<[id |-> baseId,
                                row |-> [NewContact(acct, "") EXCEPT
                                           !.name = DisplayName(vcard),
                                           !.etag = node.etag]]>>]
     ELSE [isGroup  |-> vcard.group,
           contacts |-> EmailLoop(0, acct, dbNow, node, vcard, baseId)]

\* ingestAddressDataNode(doc, node, isGroup): the contacts to save and the
\* value left in the caller's isGroup (false unless the card is reached and
\* is a group card)
ingestAddressDataNode(src, acct, dbNow, node) ==
  LET vcard == VCard(node.vcf)
      none  == [isGroup |-> FALSE, contacts |-> <<>>]
  IN IF node.vcf = "" THEN none
     ELSE IF vcard.incomplete THEN none
     ELSE IF vcard.emails = <<>> THEN none
     ELSE [isGroup  |-> vcard.group,
           contacts |-> EmailLoop(0, acct, dbNow, node, vcard,
                                  BaseId(src, vcard.uid, node.href))]

\* mutant: setBookId is lost
PreparedRowNoBook(row, bookId, isGroup) ==
  IF isGroup THEN [row EXCEPT !.hidden = TRUE] ELSE row

\* the lambda of the save loop for one contact: setBookId, setHidden(true)
\* for a group card, and the row handed to store->save
PreparedRow(row, bookId, isGroup) ==
  IF isGroup THEN [row EXCEPT !.bookId = bookId, !.hidden = TRUE]
  ELSE [row EXCEPT !.bookId = bookId]

\* the first j contacts of one response node saved, in order
RECURSIVE SaveFirst(_, _, _, _, _)
SaveFirst(dbNow, bookId, isGroup, contacts, j) ==
  IF j = 0 THEN dbNow
  ELSE LET c == contacts[j]
       IN SaveContact(SaveFirst(dbNow, bookId, isGroup, contacts, j - 1),
                      c.id, PreparedRow(c.row, bookId, isGroup))

\* abDoc->evaluateXPath("//D:response", ...): the visitor applied to every
\* response node in document order, each ingestion reading the table the
\* nodes before it left
\* (the nodes lo..hi: those of the first half, then, on the table they
\* left, those of the second)
RECURSIVE SaveRange(_, _, _, _, _, _, _)
SaveRange(src, acct, dbNow, bookId, nodes, lo, hi) ==
  IF lo > hi THEN dbNow
  ELSE IF lo = hi
       THEN LET r == ingestAddressDataNode(src, acct, dbNow, nodes[lo])
            IN SaveFirst(dbNow, bookId, r.isGroup, r.contacts, Len(r.contacts))
       ELSE LET mid == (lo + hi) \div 2
            IN CHOOSE out \in
                 {SaveRange(src, acct, left, bookId, nodes, mid + 1, hi) :
                    left \in {SaveRange(src, acct, dbNow, bookId, nodes, lo, mid)}} :
                 TRUE

SaveNodes(src, acct, dbNow, bookId, nodes) ==
  SaveRange(src, acct, dbNow, bookId, nodes, 1, Len(nodes))

\* ---------------------------------------------------------------- state
VARIABLES
  server,      \* the remote collection: href -> [etag, vcf]
  nextEtag,    \* the next etag the server hands out (one per revision)
  editsLeft,   \* remote changes still allowed
  runsLeft,    \* runs still allowed
  mode,        \* "small": a few hand-made cards; "bulk": a large import;
               \* "clash": cards with look-alike unique ids
  books,       \* ContactBook table: id -> row
  db,          \* Contact table: id -> row
  pc,          \* the worker's position in run()
  ab,          \* id of the resolved ContactBook
  remote,      \* map<ETAG, string> remote
  local,       \* keys of map<ETAG, bool> local
  needed,      \* vector<string> needed
  deleted,     \* vector<ETAG> deleted
  chunks,      \* the chunks of needed the loop walks
  batch,       \* number of chunks whose fetch was issued
  abDoc,       \* response nodes of the current multiget
  pos,         \* next response node of abDoc
  tx,          \* MailStoreTransaction of the current batch (writes0: history)
  exc,         \* what() of the exception in flight
  result,      \* ExternalCardDAVSyncResult
  fetchLog,    \* history: chunks embedded in this run's multigets
  sweepLog,    \* history: DELETE statements executed in this run
  saveCount,   \* history: store->save(contact) calls of this run
  ingested,    \* history: the last response node ingested and its result
  dbRunStart,  \* history: Contact table when the run started
  dbCommitted, \* history: Contact table after the last commit of this run
  commits,     \* history: batches committed in this run
  deleted0,    \* history: `deleted` as the reconciler computed it
  reqCount,    \* history: protocol requests issued in this run
  writeCount,  \* history: store writes executed in this run
  atThrow,     \* history: counts and transaction state when the exception left
  prevOk,      \* history: the last run succeeded and the remote is unchanged
  followsOk,   \* history: prevOk when this run started
  ctagLog,     \* history: while resolveAddressBook has just returned, the
               \* outcome of its ctag request, the token stored before it and
               \* the server's token
  retry,       \* history: whether the runs since db0 all failed (the remote
               \* unchanged) and left a table other than db0, the Contact
               \* table db0 they started from, and whether one of them failed
               \* inside the final deletion pass
  peers,       \* two workers on one store: source id -> the worker's state
  peerDb,      \* two workers on one store: the shared Contact table
  actor        \* two workers on one store: the worker that took the last step

envVars    == <<server, nextEtag, editsLeft, runsLeft, mode>>
localVars  == <<ab, remote, local, needed, deleted, chunks, batch, abDoc, pos>>
ghostVars  == <<fetchLog, sweepLog, saveCount, ingested, dbRunStart,
                dbCommitted, commits, deleted0, reqCount, writeCount, atThrow,
                prevOk, followsOk, ctagLog, retry>>
pairVars   == <<peers, peerDb, actor>>
workerVars == <<server, nextEtag, editsLeft, runsLeft, mode, books, db, pc, ab,
                remote, local, needed, deleted, chunks, batch, abDoc, pos, tx,
                exc, result, fetchLog, sweepLog, saveCount, ingested, dbRunStart,
                dbCommitted, commits, deleted0, reqCount, writeCount, atThrow,
                prevOk, followsOk, ctagLog, retry>>
vars == <<workerVars, pairVars>>

Empty == [x \in {} |-> 0]
NoTx == [open |-> FALSE, snapshot |-> Empty, writes0 |-> 0]
NoIngest == [node |-> [etag |-> 0, href |-> "", vcf |-> ""],
             isGroup |-> FALSE, contacts |-> <<>>, found |-> {}]
NoThrow == [reqs |-> 0, writes |-> 0, inTx |-> FALSE, txWrites |-> 0]
NoCtag == [req |-> "none", before |-> "", token |-> ""]
FreshFrom(dbNow) == [on |-> FALSE, db0 |-> dbNow, inFinal |-> FALSE]

\* "external-" + sourceId
BookId(src) == "external-" \o src

\* ------------------------------------------------------ the environment
SmallHrefs == {"/c1", "/c2"}
BulkHref(i) == "/p" \o ToString(i)

\* the collections a behaviour may start with: etag 1 on /c1, 2 on /c2
TextsOf(m) == IF m = "clash" THEN ClashTexts ELSE VcfTexts

InitServers(m) ==
  IF m \in {"small", "clash"}
  THEN UNION {[H -> TextsOf(m)] : H \in SUBSET SmallHrefs}
  ELSE {Empty, [h \in {"/c1"} |-> "v1"]}

WithEtags(vcfs) ==
  [h \in DOMAIN vcfs |-> [etag |-> IF h = "/c1" THEN 1 ELSE 2, vcf |-> vcfs[h]]]

\* what the owner of the remote collection may do between two runs: put or
\* delete one card, delete them all, or save two different cards one after
\* the other;
\* or import k * BatchCap cards at once, keeping the cards
\* already there, removing them, or saving them again unchanged after the
\* import ("touch": same content, new etag)
Changes(m, srv) ==
  IF m \in {"small", "clash"}
  THEN {[op |-> "put", href |-> h, vcf |-> v] : h \in SmallHrefs, v \in TextsOf(m)}
         \cup {[op |-> "del", href |-> h] : h \in DOMAIN srv \cap SmallHrefs}
         \cup {[op |-> "clear"]}
         \cup {[op |-> "put2", first |-> p[1], second |-> p[2]] :
                 p \in IF m = "clash"
                       THEN {q \in ClashTexts \X ClashTexts : q[1] # q[2]}
                       ELSE {}}
  ELSE {[op |-> "bulk", k |-> k, rest |-> r] :
          k \in IF BulkHref(1) \in DOMAIN srv THEN {} ELSE 1..MaxBulkBatches,
          r \in {"keep", "wipe", "touch"}}

\* every new revision gets an etag never used before
ApplyChange(srv, etag0, c) ==
  CASE c.op = "put" ->
         [h \in DOMAIN srv \cup {c.href} |->
            IF h = c.href THEN [etag |-> etag0, vcf |-> c.vcf] ELSE srv[h]]
    [] c.op = "del" ->
         [h \in DOMAIN srv \ {c.href} |-> srv[h]]
    [] c.op = "clear" -> Empty
    [] c.op = "put2" ->
         [h \in SmallHrefs |->
            IF h = "/c1" THEN [etag |-> etag0, vcf |-> c.first]
            ELSE [etag |-> etag0 + 1, vcf |-> c.second]]
    [] OTHER ->
         LET kept == IF c.rest = "wipe" THEN {} ELSE DOMAIN srv
             idx  == 1..(c.k * BatchCap)
             new  == [i \in idx |-> BulkHref(i)]
             inv  == [h \in {new[i] : i \in idx} |-> CHOOSE i \in idx : new[i] = h]
         IN [h \in kept \cup DOMAIN inv |->
               IF h \in DOMAIN inv THEN [etag |-> etag0 + inv[h] - 1, vcf |-> BulkVcf]
               ELSE IF c.rest = "touch"
                    THEN [etag |-> etag0 + c.k * BatchCap, vcf |-> srv[h].vcf]
                    ELSE srv[h]]

EtagsUsedBy(c) ==
  CASE c.op = "bulk" -> c.k * BatchCap + 1
    [] c.op = "put2" -> 2
    [] OTHER -> 1

\* the collection's change-summary token: changes with every revision
ServerCtag(etag0) == "ct" \o ToString(etag0)

InitWorker ==
  /\ mode \in {"small", "bulk", "clash"}
  /\ server \in {WithEtags(v) : v \in InitServers(mode)}
  /\ nextEtag = 3
  /\ editsLeft = MaxEdits
  /\ runsLeft = MaxRuns
  /\ books = Empty
  /\ db = Empty
  /\ pc = "idle"
  /\ ab = ""
  /\ remote = Empty
  /\ local = {}
  /\ needed = <<>>
  /\ deleted = <<>>
  /\ chunks = <<>>
  /\ batch = 0
  /\ abDoc = <<>>
  /\ pos = 0
  /\ tx = NoTx
  /\ exc = ""
  /\ result = [sourceId |-> sourceId, sourceName |-> sourceName,
               contactCount |-> 0, success |-> FALSE, error |-> ""]
  /\ fetchLog = <<>>
  /\ sweepLog = <<>>
  /\ saveCount = 0
  /\ ingested = NoIngest
  /\ dbRunStart = Empty
  /\ dbCommitted = Empty
  /\ commits = 0
  /\ deleted0 = <<>>
  /\ reqCount = 0
  /\ writeCount = 0
  /\ atThrow = NoThrow
  /\ prevOk = FALSE
  /\ followsOk = FALSE
  /\ ctagLog = NoCtag
  /\ retry = FreshFrom(Empty)

\* no second worker
PairIdle ==
  /\ peers = Empty
  /\ peerDb = Empty
  /\ actor = ""

Init == InitWorker /\ PairIdle

RemoteChange ==
  /\ pc \in {"idle", "done"}
  /\ editsLeft > 0
  /\ runsLeft > 0
  /\ \E c \in Changes(mode, server) :
       /\ server' = ApplyChange(server, nextEtag, c)
       /\ nextEtag' = nextEtag + EtagsUsedBy(c)
  /\ editsLeft' = editsLeft - 1
  /\ prevOk' = FALSE
  /\ retry' = FreshFrom(db)
  /\ UNCHANGED <<runsLeft, mode, books, db, pc, localVars, tx, exc, result,
                 fetchLog, sweepLog, saveCount, ingested, dbRunStart,
                 dbCommitted, commits, deleted0, reqCount, writeCount, atThrow,
                 followsOk, ctagLog, pairVars>>

\* ------------------------------------------------------------ the worker
\* ~MailStoreTransaction(): a transaction destroyed uncommitted restores the
\* table it began with; with no transaction open every statement stays
Rollback(t, dbNow) == IF t.open THEN t.snapshot ELSE dbNow

\* An exception leaves the current statement: the batch's
\* MailStoreTransaction, if one is open, is destroyed uncommitted and rolls
\* the Contact table back; `dbNow` is the table at the throw.
Throw(msg, dbNow, reqs, writes) ==
  /\ pc' = "thrown"
  /\ exc' = msg
  /\ db' = Rollback(tx, dbNow)
  /\ tx' = NoTx
  /\ reqCount' = reqs
  /\ writeCount' = writes
  /\ atThrow' = [reqs |-> reqs, writes |-> writes, inTx |-> tx.open,
                  txWrites |-> IF tx.open THEN writes - tx.writes0 ELSE 0]

\* run(), up to the try block
StartRun ==
  /\ pc \in {"idle", "done"}
  /\ runsLeft > 0
  /\ runsLeft' = runsLeft - 1
  /\ pc' = "resolve"
  /\ result' = [sourceId |-> sourceId, sourceName |-> sourceName,
                contactCount |-> 0, success |-> FALSE, error |-> ""]
  /\ ab' = ""
  /\ remote' = Empty
  /\ local' = {}
  /\ needed' = <<>>
  /\ deleted' = <<>>
  /\ chunks' = <<>>
  /\ batch' = 0
  /\ abDoc' = <<>>
  /\ pos' = 0
  /\ tx' = NoTx
  /\ exc' = ""
  /\ fetchLog' = <<>>
  /\ sweepLog' = <<>>
  /\ saveCount' = 0
  /\ ingested' = NoIngest
  /\ dbRunStart' = db
  /\ dbCommitted' = db
  /\ commits' = 0
  /\ deleted0' = <<>>
  /\ reqCount' = 0
  /\ writeCount' = 0
  /\ atThrow' = NoThrow
  /\ followsOk' = prevOk
  /\ ctagLog' = NoCtag
  /\ retry' = IF retry.on /\ ~result.success /\ db # retry.db0
               THEN retry ELSE FreshFrom(db)
  /\ UNCHANGED <<server, nextEtag, editsLeft, mode, books, db, prevOk,
                 pairVars>>

\* mutant: the test `ctag != ""` is lost and an empty token is stored
ResolveStoresEmptyCtag ==
  /\ pc = "resolve"
  /\ \E o \in {"findFails", "ctagFails", "noCtag", "saveFails", "ok"} :
       LET bookId   == BookId(sourceId)
           existing == IF bookId \in DOMAIN books THEN books[bookId]
                       ELSE NewContactBook(accountId)
           tagged   == [existing EXCEPT !.source = EXTERNAL_CARDDAV_SOURCE,
                                        !.url = sourceUrl]
           saved    == IF o = "ctagFails" THEN tagged
                       ELSE IF o = "noCtag" THEN [tagged EXCEPT !.ctag = ""]
                       ELSE [tagged EXCEPT !.ctag = ServerCtag(nextEtag)]
       IN CASE o = "findFails" ->
                 /\ Throw("SQLite: find ContactBook", db, reqCount, writeCount)
                 /\ UNCHANGED <<books, ab, ctagLog>>
            [] o = "saveFails" ->
                 /\ Throw("SQLite: save ContactBook", db, reqCount + 1, writeCount)
                 /\ UNCHANGED <<books, ab, ctagLog>>
            [] OTHER ->
                 /\ books' = [b \in DOMAIN books \cup {bookId} |->
                                IF b = bookId THEN saved ELSE books[b]]
                 /\ ab' = bookId
                 /\ ctagLog' = [req |-> CASE o = "ctagFails" -> "failed"
                                          [] o = "noCtag" -> "empty"
                                          [] OTHER -> "ok",
                                before |-> existing.ctag,
                                token |-> ServerCtag(nextEtag)]
                 /\ pc' = "listing"
                 /\ reqCount' = reqCount + 1
                 /\ writeCount' = writeCount + 1
                 /\ UNCHANGED <<db, tx, exc, atThrow>>
  /\ UNCHANGED <<envVars, remote, local, needed, deleted, chunks, batch, abDoc,
                 pos, result, fetchLog, sweepLog, saveCount, ingested,
                 dbRunStart, dbCommitted, commits, deleted0, prevOk, followsOk,
                 retry, pairVars>>

\* resolveAddressBook(): find or make the ContactBook, set source and URL,
\* ask for the ctag (a failure of that request is only logged), save
ResolveAddressBook ==
  /\ pc = "resolve"
  /\ \E o \in {"findFails", "ctagFails", "noCtag", "saveFails", "ok"} :
       LET bookId   == BookId(sourceId)
           existing == IF bookId \in DOMAIN books THEN books[bookId]
                       ELSE NewContactBook(accountId)
           tagged   == [existing EXCEPT !.source = EXTERNAL_CARDDAV_SOURCE,
                                        !.url = sourceUrl]
           saved    == IF o \in {"ctagFails", "noCtag"} THEN tagged
                       ELSE [tagged EXCEPT !.ctag = ServerCtag(nextEtag)]
       IN CASE o = "findFails" ->
                 /\ Throw("SQLite: find ContactBook", db, reqCount, writeCount)
                 /\ UNCHANGED <<books, ab, ctagLog>>
            [] o = "saveFails" ->
                 /\ Throw("SQLite: save ContactBook", db, reqCount + 1, writeCount)
                 /\ UNCHANGED <<books, ab, ctagLog>>
            [] OTHER ->
                 /\ books' = [b \in DOMAIN books \cup {bookId} |->
                                IF b = bookId THEN saved ELSE books[b]]
                 /\ ab' = bookId
                 /\ ctagLog' = [req |-> CASE o = "ctagFails" -> "failed"
                                          [] o = "noCtag" -> "empty"
                                          [] OTHER -> "ok",
                                before |-> existing.ctag,
                                token |-> ServerCtag(nextEtag)]
                 /\ pc' = "listing"
                 /\ reqCount' = reqCount + 1
                 /\ writeCount' = writeCount + 1
                 /\ UNCHANGED <<db, tx, exc, atThrow>>
  /\ UNCHANGED <<envVars, remote, local, needed, deleted, chunks, batch, abDoc,
                 pos, result, fetchLog, sweepLog, saveCount, ingested,
                 dbRunStart, dbCommitted, commits, deleted0, prevOk, followsOk,
                 retry, pairVars>>

\* runForAddressBook(), the REPORT addressbook-query and the remote map
ListingRequest ==
  /\ pc = "listing"
  /\ \E ok \in BOOLEAN :
       IF ok
       THEN /\ remote' = RemoteListing(server)
            /\ pc' = "local"
            /\ reqCount' = reqCount + 1
            /\ UNCHANGED <<db, tx, exc, writeCount, atThrow>>
       ELSE /\ Throw("listing request failed", db, reqCount + 1, writeCount)
            /\ UNCHANGED remote
  /\ ctagLog' = NoCtag
  /\ UNCHANGED <<envVars, books, ab, local, needed, deleted, chunks, batch,
                 abDoc, pos, result, fetchLog, sweepLog, saveCount, ingested,
                 dbRunStart, dbCommitted, commits, deleted0, prevOk, followsOk,
                 retry, pairVars>>

\* the local etags, then needed and deleted, then the chunks of needed
ReadLocalEtags ==
  /\ pc = "local"
  /\ \E ok \in BOOLEAN :
       IF ok
       THEN LET l == LocalEtags(db, ab)
                n == NeededOf(remote, l)
                d == DeletedOf(remote, l)
            IN /\ local' = l
               /\ needed' = n
               /\ deleted' = d
               /\ deleted0' = d
               /\ chunks' = NeededChunks(n)
               /\ batch' = 0
               /\ pc' = "batches"
               /\ UNCHANGED <<db, tx, exc, reqCount, writeCount, atThrow>>
       ELSE /\ Throw("SQLite: select etags", db, reqCount, writeCount)
            /\ UNCHANGED <<local, needed, deleted, deleted0, chunks, batch>>
  /\ UNCHANGED <<envVars, books, ab, remote, abDoc, pos, result, fetchLog,
                 sweepLog, saveCount, ingested, dbRunStart, dbCommitted, commits,
                 prevOk, followsOk,
                 ctagLog, retry, pairVars>>

\* one turn of the loop over the chunks: the REPORT addressbook-multiget
\* that embeds the chunk's hrefs
FetchBatch ==
  /\ pc = "batches"
  /\ batch < Len(chunks)
  /\ fetchLog' = Append(fetchLog, chunks[batch + 1])
  /\ batch' = batch + 1
  /\ \E ok \in BOOLEAN :
       IF ok
       THEN /\ abDoc' = Multiget(server, chunks[batch + 1])
            /\ pc' = "begin"
            /\ reqCount' = reqCount + 1
            /\ UNCHANGED <<db, tx, exc, writeCount, atThrow>>
       ELSE /\ Throw("multiget request failed", db, reqCount + 1, writeCount)
            /\ UNCHANGED abDoc
  /\ UNCHANGED <<envVars, books, ab, remote, local, needed, deleted, chunks,
                 pos, result, sweepLog, saveCount, ingested, dbRunStart,
                 dbCommitted, commits, deleted0, prevOk, followsOk,
                 ctagLog, retry, pairVars>>

\* mutant: the batch runs without a transaction
OpenTransactionMissing ==
  /\ pc = "begin"
  /\ pc' = "sweep"
  /\ UNCHANGED <<envVars, books, db, localVars, tx, exc, result, ghostVars, pairVars>>

\* MailStoreTransaction transaction {store, ...}
OpenTransaction ==
  /\ pc = "begin"
  /\ tx' = [open |-> TRUE, snapshot |-> db, writes0 |-> writeCount]
  /\ pc' = "sweep"
  /\ UNCHANGED <<envVars, books, db, localVars, exc, result, ghostVars, pairVars>>

\* the DELETE statements for the first j etags of `etags`, as log entries
SweepEntries(etags, j, where) ==
  [i \in 1..j |-> [etag |-> etags[i], batch |-> where]]

\* mutant: deleted.clear() is lost
StaleSweepNoClear ==
  /\ pc = "sweep"
  /\ sweepLog' = sweepLog \o SweepEntries(deleted, Len(deleted), batch)
  /\ db' = DeleteAll(db, ab, deleted)
  /\ pc' = "save"
  /\ pos' = 1
  /\ writeCount' = writeCount + Len(deleted)
  /\ UNCHANGED <<envVars, books, ab, remote, local, needed, deleted, chunks,
                 batch, abDoc, tx, exc, result, fetchLog, saveCount, ingested,
                 dbRunStart, dbCommitted, commits, deleted0, reqCount, atThrow,
                 prevOk, followsOk,
                 ctagLog, retry, pairVars>>

\* if (deleted.size()) { DELETE for each etag; deleted.clear(); } inside the
\* batch's transaction
StaleSweep ==
  /\ pc = "sweep"
  /\ IF deleted = <<>>
     THEN /\ pc' = "save"
          /\ pos' = 1
          /\ UNCHANGED <<db, tx, exc, deleted, sweepLog, reqCount, writeCount,
                         atThrow>>
     ELSE \E j \in 0..Len(deleted) :
            /\ sweepLog' = sweepLog \o SweepEntries(deleted, j, batch)
            /\ IF j = Len(deleted)
               THEN /\ db' = DeleteAll(db, ab, deleted)
                    /\ deleted' = <<>>
                    /\ pc' = "save"
                    /\ pos' = 1
                    /\ writeCount' = writeCount + j
                    /\ UNCHANGED <<tx, exc, reqCount, atThrow>>
               ELSE /\ Throw("SQLite: delete", DeleteAll(db, ab, SubSeq(deleted, 1, j)),
                             reqCount, writeCount + j)
                    /\ UNCHANGED <<deleted, pos>>
  /\ UNCHANGED <<envVars, books, ab, remote, local, needed, chunks, batch,
                 abDoc, result, fetchLog, saveCount, ingested, dbRunStart,
                 dbCommitted, commits, deleted0, prevOk, followsOk,
                 ctagLog, retry, pairVars>>

\* the visitor of one //D:response node: ingestAddressDataNode, then
\* setBookId, setHidden and store->save for each contact it returned
SaveNode ==
  /\ pc = "save"
  /\ pos <= Len(abDoc)
  /\ LET node == abDoc[pos]
         r    == ingestAddressDataNode(sourceId, accountId, db, node)
         k    == Len(r.contacts)
     IN \E j \in 0..k :
          IF j = k
          THEN /\ db' = SaveFirst(db, ab, r.isGroup, r.contacts, k)
               /\ pos' = pos + 1
               /\ saveCount' = saveCount + k
               /\ writeCount' = writeCount + k
               /\ ingested' = [node |-> node, isGroup |-> r.isGroup,
                               contacts |-> r.contacts,
                               found |-> {r.contacts[i].id : i \in 1..k}
                                           \cap DOMAIN db]
               /\ UNCHANGED <<pc, tx, exc, reqCount, atThrow>>
          ELSE /\ Throw("SQLite: save Contact",
                        SaveFirst(db, ab, r.isGroup, r.contacts, j),
                        reqCount, writeCount + j)
               /\ UNCHANGED <<pos, saveCount, ingested>>
  /\ UNCHANGED <<envVars, books, ab, remote, local, needed, deleted, chunks,
                 batch, abDoc, result, fetchLog, sweepLog, dbRunStart,
                 dbCommitted, commits, deleted0, prevOk, followsOk,
                 ctagLog, retry, pairVars>>

\* transaction.commit()
Commit ==
  /\ pc = "save"
  /\ pos > Len(abDoc)
  /\ \E ok \in BOOLEAN :
       IF ok
       THEN /\ tx' = NoTx
            /\ dbCommitted' = db
            /\ commits' = commits + 1
            /\ pc' = "batches"
            /\ UNCHANGED <<db, exc, reqCount, writeCount, atThrow>>
       ELSE /\ Throw("SQLite: commit", db, reqCount, writeCount)
            /\ UNCHANGED <<dbCommitted, commits>>
  /\ UNCHANGED <<envVars, books, localVars, result, fetchLog, sweepLog,
                 saveCount, ingested, dbRunStart, deleted0, prevOk, followsOk,
                 ctagLog, retry, pairVars>>

\* mutant: the loop over the chunks can be left before the last chunk
FinalSweepEarly ==
  /\ pc = "batches"
  /\ deleted = <<>>
  /\ pc' = "finish"
  /\ UNCHANGED <<envVars, books, db, localVars, tx, exc, result, ghostVars,
                 pairVars>>

\* mutant: there is no final deletion pass
FinalSweepMissing ==
  /\ pc = "batches"
  /\ batch = Len(chunks)
  /\ pc' = "finish"
  /\ UNCHANGED <<envVars, books, db, localVars, tx, exc, result, ghostVars, pairVars>>

\* the final deletion pass, after the loop and outside any transaction
FinalSweep ==
  /\ pc = "batches"
  /\ batch = Len(chunks)
  /\ IF deleted = <<>>
     THEN /\ pc' = "finish"
          /\ UNCHANGED <<db, tx, exc, sweepLog, reqCount, writeCount, atThrow,
                         dbCommitted>>
     ELSE \E j \in 0..Len(deleted) :
            /\ sweepLog' = sweepLog \o SweepEntries(deleted, j, 0)
            /\ IF j = Len(deleted)
               THEN /\ db' = DeleteAll(db, ab, deleted)
                    /\ dbCommitted' = db'
                    /\ pc' = "finish"
                    /\ writeCount' = writeCount + j
                    /\ UNCHANGED <<tx, exc, reqCount, atThrow>>
               ELSE /\ Throw("SQLite: delete", DeleteAll(db, ab, SubSeq(deleted, 1, j)),
                             reqCount, writeCount + j)
                    /\ dbCommitted' = db'
  /\ UNCHANGED <<envVars, books, localVars, result, fetchLog, saveCount,
                 ingested, dbRunStart, commits, deleted0, prevOk, followsOk,
                 ctagLog, retry, pairVars>>

\* mutant: the count returned is the number of items fetched
FinishCountsNeeded ==
  /\ pc = "finish"
  /\ result' = [result EXCEPT !.contactCount = Len(needed),
                              !.success = TRUE]
  /\ pc' = "done"
  /\ prevOk' = TRUE
  /\ UNCHANGED <<envVars, books, db, localVars, tx, exc, fetchLog, sweepLog,
                 saveCount, ingested, dbRunStart, dbCommitted, commits, deleted0,
                 reqCount, writeCount, atThrow, followsOk,
                 ctagLog, retry, pairVars>>

\* return remote.size(); result.contactCount = ...; result.success = true
Finish ==
  /\ pc = "finish"
  /\ result' = [result EXCEPT !.contactCount = Cardinality(DOMAIN remote),
                              !.success = TRUE]
  /\ pc' = "done"
  /\ prevOk' = TRUE
  /\ UNCHANGED <<envVars, books, db, localVars, tx, exc, fetchLog, sweepLog,
                 saveCount, ingested, dbRunStart, dbCommitted, commits, deleted0,
                 reqCount, writeCount, atThrow, followsOk,
                 ctagLog, retry, pairVars>>

\* mutant: the handler does not record the error
CatchNoError ==
  /\ pc = "thrown"
  /\ pc' = "done"
  /\ prevOk' = FALSE
  /\ retry' = [retry EXCEPT !.on = TRUE, !.inFinal = (@ \/ (exc = "SQLite: delete" /\ chunks = <<>>))]
  /\ UNCHANGED <<envVars, books, db, localVars, tx, exc, result, fetchLog,
                 sweepLog, saveCount, ingested, dbRunStart, dbCommitted,
                 commits, deleted0, reqCount, writeCount, atThrow, followsOk,
                 ctagLog, pairVars>>

\* catch (const exception& e) { result.error = e.what(); }  return result;
Catch ==
  /\ pc = "thrown"
  /\ result' = [result EXCEPT !.error = exc]
  /\ pc' = "done"
  /\ prevOk' = FALSE
  /\ retry' = [retry EXCEPT !.on = TRUE, !.inFinal = (@ \/ (exc = "SQLite: delete" /\ chunks = <<>>))]
  /\ UNCHANGED <<envVars, books, db, localVars, tx, exc, fetchLog, sweepLog,
                 saveCount, ingested, dbRunStart, dbCommitted, commits, deleted0,
                 reqCount, writeCount, atThrow, followsOk, ctagLog, pairVars>>

Next ==
  \/ RemoteChange
  \/ StartRun
  \/ ResolveAddressBook
  \/ ListingRequest
  \/ ReadLocalEtags
  \/ FetchBatch
  \/ OpenTransaction
  \/ StaleSweep
  \/ SaveNode
  \/ Commit
  \/ FinalSweep
  \/ Finish
  \/ Catch

Spec == Init /\ [][Next]_vars

\* ------------------------------------------- two workers on one store
\* One worker per external source, each with its own remote collection and
\* its own run, against the same Contact table.  A batch's transaction
\* (stale sweep, upserts, commit) takes effect as one step: the store
\* serialises write transactions.  No request or statement fails here.
peerSourceId == sourceId \o "-x"
PeerSources == {sourceId, peerSourceId}

\* the payloads each source's collection may hold at /c1
PeerCards(s) == IF s = sourceId THEN {"v2", "v7"} ELSE {"v1", "v8"}

\* the collections a source may start with
PeerServers(s) ==
  {Empty}
    \cup {WithEtags([h \in {"/c1"} |-> v]) : v \in PeerCards(s)}
    \cup IF s = sourceId
         THEN {WithEtags([h \in SmallHrefs |-> IF h = "/c1" THEN v ELSE "v6"]) :
                 v \in PeerCards(s)}
         ELSE {}

PeerIdle(srv) ==
  [pc |-> "idle", srv |-> srv, nextEtag |-> 3, runsLeft |-> PeerRuns,
   editsLeft |-> PeerEdits, remote |-> Empty, needed |-> <<>>,
   deleted |-> <<>>, chunks |-> <<>>, batch |-> 0, derived |-> {}]

InitPair ==
  /\ InitWorker
  /\ mode = "small"
  /\ server = Empty
  /\ peers \in {[s \in PeerSources |-> PeerIdle(IF s = sourceId THEN a ELSE b)] :
                  a \in PeerServers(sourceId), b \in PeerServers(peerSourceId)}
  /\ peerDb = Empty
  /\ actor = ""

\* the owner of source s's collection saves a card at /c1 or deletes it
PeerChange(s) ==
  /\ peers[s].pc \in {"idle", "done"}
  /\ peers[s].editsLeft > 0
  /\ peers[s].runsLeft > 0
  /\ \E c \in {[op |-> "put", href |-> "/c1", vcf |-> v] : v \in PeerCards(s)}
               \cup {[op |-> "del", href |-> h] :
                       h \in DOMAIN peers[s].srv \cap {"/c1"}} :
       peers' = [peers EXCEPT ![s] =
                   [@ EXCEPT !.srv = ApplyChange(@, peers[s].nextEtag, c),
                             !.nextEtag = @ + 1,
                             !.editsLeft = @ - 1]]
  /\ UNCHANGED <<peerDb, actor, workerVars>>

\* run() of the worker of source s, through resolveAddressBook
PeerStart(s) ==
  /\ peers[s].pc \in {"idle", "done"}
  /\ peers[s].runsLeft > 0
  /\ peers' = [peers EXCEPT ![s] =
                 [@ EXCEPT !.pc = "reconcile", !.runsLeft = @ - 1,
                           !.remote = Empty, !.needed = <<>>, !.deleted = <<>>,
                           !.chunks = <<>>, !.batch = 0]]
  /\ actor' = s
  /\ UNCHANGED <<peerDb, workerVars>>

\* the listing, the local etags of the worker's own collection, the diff
PeerReconcile(s) ==
  /\ peers[s].pc = "reconcile"
  /\ LET r == RemoteListing(peers[s].srv)
         l == LocalEtags(peerDb, BookId(s))
         n == NeededOf(r, l)
     IN peers' = [peers EXCEPT ![s] =
                    [@ EXCEPT !.pc = "batches", !.remote = r, !.needed = n,
                              !.deleted = DeletedOf(r, l),
                              !.chunks = NeededChunks(n)]]
  /\ actor' = s
  /\ UNCHANGED <<peerDb, workerVars>>

\* the (key, index, id) of every row ingestAddressDataNode derives from the
\* nodes of a response, key being the unique id or else the path
DerivedIn(s, nodes) ==
  UNION {LET vcard == VCard(nodes[j].vcf)
             key   == IF vcard.uid = "" THEN nodes[j].href ELSE vcard.uid
         IN IF nodes[j].vcf = "" \/ vcard.incomplete THEN {}
            ELSE {[key |-> key, i |-> i,
                   id |-> ContactId(BaseId(s, vcard.uid, nodes[j].href), i)] :
                    i \in {k \in 0..(Len(vcard.emails) - 1) :
                             vcard.emails[k + 1] # ""}} :
         j \in 1..Len(nodes)}

\* one turn of the loop: content-fetch, then the batch's transaction
PeerBatch(s) ==
  /\ peers[s].pc = "batches"
  /\ peers[s].batch < Len(peers[s].chunks)
  /\ LET doc   == Multiget(peers[s].srv, peers[s].chunks[peers[s].batch + 1])
         swept == DeleteAll(peerDb, BookId(s), peers[s].deleted)
     IN /\ peerDb' = SaveNodes(s, accountId, swept, BookId(s), doc)
        /\ peers' = [peers EXCEPT ![s] =
                       [@ EXCEPT !.deleted = <<>>, !.batch = @ + 1,
                                 !.derived = @ \cup DerivedIn(s, doc)]]
  /\ actor' = s
  /\ UNCHANGED workerVars

\* the final deletion pass and the return of the run
PeerFinalSweep(s) ==
  /\ peers[s].pc = "batches"
  /\ peers[s].batch = Len(peers[s].chunks)
  /\ peerDb' = DeleteAll(peerDb, BookId(s), peers[s].deleted)
  /\ peers' = [peers EXCEPT ![s] = [@ EXCEPT !.pc = "done"]]
  /\ actor' = s
  /\ UNCHANGED workerVars

NextPair ==
  \E s \in PeerSources :
    \/ PeerChange(s)
    \/ PeerStart(s)
    \/ PeerReconcile(s)
    \/ PeerBatch(s)
    \/ PeerFinalSweep(s)

SpecPair == InitPair /\ [][NextPair]_vars

\* ------------------------------------------------------------ properties
Range(q) == {q[i] : i \in 1..Len(q)}

\* the run has just returned success and the remote has not changed since
RunSucceeded == pc = "done" /\ result.success /\ prevOk

\* needed and deleted of the current run have been computed
Reconciled ==
  \/ pc \in {"batches", "begin", "sweep", "save", "finish"}
  \/ RunSucceeded

\* the Contact ids the remote item at href h gives rise to
RowIdsOf(srv, h) ==
  LET r == ingestAddressDataNode(sourceId, accountId, Empty,
             [etag |-> srv[h].etag, href |-> h, vcf |-> srv[h].vcf])
  IN {r.contacts[i].id : i \in 1..Len(r.contacts)}

\* every remote item yields a row, and no two items derive the same id
\* (as many ids as (id, item) pairs)
IdPairs(srv) ==
  UNION {{<<id, h>> : id \in RowIdsOf(srv, h)} : h \in DOMAIN srv}

CleanRemote(srv) ==
  /\ \A h \in DOMAIN srv : RowIdsOf(srv, h) # {}
  /\ Cardinality({p[1] : p \in IdPairs(srv)}) = Cardinality(IdPairs(srv))

\* C1 as stated: after a successful run the etags on the collection's rows
\* are exactly the keys of the remote listing.
C1_Original ==
  RunSucceeded => LocalEtags(db, ab) = DOMAIN remote

\* C1 (amended): after a successful run every etag on the collection's rows
\* is a key of the remote listing, and the two sets are equal when every
\* remote item yields at least one row and no two items derive the same id.
C1_EtagsConverge ==
  RunSucceeded =>
    /\ LocalEtags(db, ab) \subseteq DOMAIN remote
    /\ CleanRemote(server) => LocalEtags(db, ab) = DOMAIN remote

C1_Witness ==
  /\ RunSucceeded
  /\ CleanRemote(server)
  /\ needed # <<>>
  /\ deleted0 # <<>>
  /\ local \cap DOMAIN remote # {}
  /\ LocalEtags(db, ab) = DOMAIN remote

\* C2: needed is exactly the paths of the remote etags that are not local,
\* deleted is exactly the local etags that are not remote, each listed once,
\* and no etag that is both local and remote is in either.
C2_DiffCorrect ==
  Reconciled =>
    /\ Range(needed) = {remote[e] : e \in DOMAIN remote \ local}
    /\ Len(needed) = Cardinality(DOMAIN remote \ local)
    /\ Range(deleted0) = local \ DOMAIN remote
    /\ Len(deleted0) = Cardinality(local \ DOMAIN remote)
    /\ \A e \in local \cap DOMAIN remote :
         e \notin Range(deleted0) /\ remote[e] \notin Range(needed)

C2_Witness ==
  /\ Reconciled
  /\ local \cap DOMAIN remote # {}
  /\ needed # <<>>
  /\ deleted0 # <<>>

\* C3 as stated: a run that follows a successful run, the remote unchanged,
\* computes nothing to fetch and nothing to delete and touches nothing.
C3_Original ==
  (RunSucceeded /\ followsOk) =>
    /\ needed = <<>>
    /\ deleted0 = <<>>
    /\ fetchLog = <<>>
    /\ saveCount = 0
    /\ sweepLog = <<>>

\* C3 (amended): such a run computes deleted = {} and executes no delete;
\* when every remote item yields at least one row and no two items derive
\* the same id it also computes needed = {}, issues no content-fetch
\* request and saves nothing.
C3_SecondRunIdle ==
  (RunSucceeded /\ followsOk) =>
    /\ deleted0 = <<>>
    /\ sweepLog = <<>>
    /\ CleanRemote(server) =>
         /\ needed = <<>>
         /\ fetchLog = <<>>
         /\ saveCount = 0
         /\ db = dbRunStart

C3_Witness ==
  /\ RunSucceeded
  /\ followsOk
  /\ CleanRemote(server)
  /\ Cardinality(DOMAIN remote) >= 2
  /\ needed = <<>>
  /\ fetchLog = <<>>

\* C4: after a successful run no row of the collection carries an etag that
\* was in deleted at reconciliation; with nothing needed, no content-fetch
\* request was issued and the final sweep executed the deletions.
C4_StaleRemoved ==
  RunSucceeded =>
    /\ \A i \in DOMAIN db :
         db[i].bookId = ab => db[i].etag \notin Range(deleted0)
    /\ needed = <<>> =>
         /\ fetchLog = <<>>
         /\ sweepLog = [i \in 1..Len(deleted0) |->
                          [etag |-> deleted0[i], batch |-> 0]]

C4_Witness ==
  /\ RunSucceeded
  /\ needed = <<>>
  /\ deleted0 # <<>>
  /\ \E i \in DOMAIN dbRunStart :
       dbRunStart[i].bookId = ab /\ dbRunStart[i].etag \in Range(deleted0)

\* C5: in a successful run the DELETE statement runs exactly once for each
\* etag of deleted: in the first batch when there is a batch, otherwise in
\* the final sweep (batch 0 in the log).
C5_SweepOnce ==
  RunSucceeded =>
    /\ \A e \in Range(deleted0) :
         Cardinality({i \in 1..Len(sweepLog) : sweepLog[i].etag = e}) = 1
    /\ \A i \in 1..Len(sweepLog) :
         /\ sweepLog[i].etag \in Range(deleted0)
         /\ sweepLog[i].batch = IF chunks = <<>> THEN 0 ELSE 1

C5_Witness ==
  /\ RunSucceeded
  /\ Len(chunks) >= 2
  /\ deleted0 # <<>>
  /\ Len(sweepLog) = Len(deleted0)

\* the rows of the first n chunks' cards are in the collection
ChunksApplied(n) ==
  \A b \in 1..n : \A i \in 1..Len(chunks[b]) :
    \A id \in RowIdsOf(server, chunks[b][i]) :
      id \in DOMAIN db /\ db[id].bookId = ab

\* C6: when a batch fails after its transaction was opened, or its
\* content-fetch fails, the Contact table is what the last commit of the run
\* left (the table of the run's start when no batch committed): nothing of
\* the failed batch, everything of the batches before it; and what a commit
\* leaves holds the rows of every card of the committed batches.
C6_BatchAtomic ==
  /\ ((pc = "thrown" \/ (pc = "done" /\ ~result.success)) /\ batch >= 1) =>
       /\ ~tx.open
       /\ commits = batch - 1
       /\ db = dbCommitted
       /\ commits = 0 => db = dbRunStart
  /\ (pc = "batches" /\ commits >= 1) =>
       /\ db = dbCommitted
       /\ ChunksApplied(commits)

C6_Witness ==
  /\ pc = "thrown"
  /\ atThrow.inTx
  /\ atThrow.txWrites > 0
  /\ commits >= 1
  /\ dbCommitted # dbRunStart
  /\ db = dbCommitted

\* C7: an exception in flight is always caught by run(): the only step from
\* there returns a result with success=false and a non-empty error and
\* makes no request and no store write; and every run ends with a returned
\* result that is a success or carries an error.
C7_NeverRaises ==
  [][/\ pc = "thrown" =>
          /\ pc' = "done"
          /\ ~result'.success
          /\ result'.error # ""
          /\ result'.contactCount = 0
          /\ db' = db
          /\ books' = books
          /\ reqCount' = reqCount
          /\ writeCount' = writeCount
     /\ (pc # "done" /\ pc' = "done") =>
          /\ result'.success \/ result'.error # ""
          /\ ~tx'.open
     /\ pc' = "thrown" => exc' # ""]_vars

C7_Witness ==
  /\ pc = "done"
  /\ ~result.success
  /\ result.error # ""
  /\ atThrow.inTx
  /\ atThrow.txWrites > 0
  /\ writeCount = atThrow.writes
  /\ reqCount = atThrow.reqs

RECURSIVE Flatten(_)
Flatten(qs) == IF qs = <<>> THEN <<>> ELSE Head(qs) \o Flatten(Tail(qs))

\* C8: a successful run issues ceil(n/90) content-fetch requests for n
\* needed paths, each embedding 1..90 paths, and the requests taken together
\* embed every needed path exactly once.
C8_BatchCap ==
  RunSucceeded =>
    /\ Len(fetchLog) = (Len(needed) + 89) \div 90
    /\ \A b \in 1..Len(fetchLog) :
         Len(fetchLog[b]) >= 1 /\ Len(fetchLog[b]) <= 90
    /\ Flatten(fetchLog) = needed
    /\ Cardinality(Range(needed)) = Len(needed)

C8_Witness ==
  /\ RunSucceeded
  /\ Len(needed) > 180
  /\ Len(fetchLog) = 3

\* the card of the last response node that was ingested and saved
IngestedCard == VCard(ingested.node.vcf)
IngestedParseable ==
  /\ ingested.node.vcf # ""
  /\ ~IngestedCard.incomplete
  /\ Len(IngestedCard.emails) >= 1
IngestedBase ==
  "ext-" \o sourceId \o "-" \o
    (IF IngestedCard.uid = "" THEN ingested.node.href ELSE IngestedCard.uid)
IngestedIdAt(i) ==
  IF i = 0 THEN IngestedBase ELSE IngestedBase \o "-" \o ToString(i)

\* all rows of one ingestion carry the same name, info blob and etag
SameShared(cs) ==
  \A i, j \in 1..Len(cs) :
    /\ cs[i].row.name = cs[j].row.name
    /\ cs[i].row.info = cs[j].row.info
    /\ cs[i].row.etag = cs[j].row.etag

\* C9 as stated: a parseable payload with k >= 1 e-mail entries yields k
\* rows, with ids ext-S-U, ext-S-U-1, ..., ext-S-U-(k-1).
C9_Original ==
  IngestedParseable =>
    /\ Len(ingested.contacts) = Len(IngestedCard.emails)
    /\ \A i \in 1..Len(ingested.contacts) :
         /\ ingested.contacts[i].id = IngestedIdAt(i - 1)
         /\ ingested.contacts[i].row.email = IngestedCard.emails[i]
    /\ SameShared(ingested.contacts)

\* C9 (amended): a parseable payload with k >= 1 e-mail entries yields one
\* row for each index i in 0..k-1 whose e-mail value is non-empty, and no
\* other: its id is ext-S-U for i = 0 and ext-S-U-i for i >= 1 (an empty
\* entry is skipped and its index is not reused), it carries that e-mail, and
\* all rows carry the same name, info blob and etag.
C9_FanOut ==
  IngestedParseable =>
    LET used == {i \in 0..(Len(IngestedCard.emails) - 1) :
                   IngestedCard.emails[i + 1] # ""}
    IN /\ Len(ingested.contacts) = Cardinality(used)
       /\ {<<ingested.contacts[j].id, ingested.contacts[j].row.email>> :
             j \in 1..Len(ingested.contacts)}
            = {<<IngestedIdAt(i), IngestedCard.emails[i + 1]>> : i \in used}
       /\ SameShared(ingested.contacts)
       /\ \A j \in 1..Len(ingested.contacts) :
            /\ ingested.contacts[j].row.etag = ingested.node.etag
            /\ ingested.contacts[j].row.info.vcf = ingested.node.vcf
            /\ ingested.contacts[j].row.info.href = ingested.node.href
            /\ ingested.contacts[j].row.name
                 = (IF IngestedCard.fn = "" THEN IngestedCard.n ELSE IngestedCard.fn)
            /\ pc = "save" => ingested.contacts[j].id \in DOMAIN db

C9_Witness ==
  /\ pc = "save"
  /\ IngestedParseable
  /\ Len(IngestedCard.emails) = 3
  /\ Len(ingested.contacts) = 2
  /\ ingested.contacts[2].id = "ext-S-/c1-2"
  /\ "ext-S-/c1-2" \in DOMAIN db

\* C10: right after the rows of a response node are saved, each of them has
\* hidden = true when the card is a group card and hidden = false when it
\* is not, whether the row was new or found by its id.
C10_GroupFlag ==
  (pc = "save" /\ IngestedParseable) =>
    \A j \in 1..Len(ingested.contacts) :
      db[ingested.contacts[j].id].hidden = IngestedCard.group

\* a response node that ingestAddressDataNode turns into no contact: an empty
\* body, an incomplete card, or a card without e-mail addresses
Unusable(node) ==
  \/ node.vcf = ""
  \/ VCard(node.vcf).incomplete
  \/ VCard(node.vcf).emails = <<>>

UsableNode(node) == ~Unusable(node)

\* the table the current batch's transaction began with, after the stale
\* sweep of the first batch
SweptSnapshot ==
  DeleteAll(tx.snapshot, ab, IF batch = 1 THEN deleted0 ELSE <<>>)

\* C11: when every response node of a batch has been visited, the batch has
\* not aborted and the Contact table is the one the usable nodes alone would
\* have produced: the empty, incomplete and e-mail-less items contributed no
\* row and changed no other item's rows; and needed and deleted are still
\* what the two listings alone determine.
C11_SkippedInert ==
  (pc = "save" /\ pos > Len(abDoc)) =>
    /\ tx.open
    /\ db = SaveNodes(sourceId, accountId, SweptSnapshot, ab,
                      SelectSeq(abDoc, UsableNode))
    /\ \A i \in 1..Len(abDoc) :
         Unusable(abDoc[i]) =>
           \A id \in DOMAIN db : db[id].etag # abDoc[i].etag
    /\ needed = NeededOf(RemoteListing(server), LocalEtags(dbRunStart, ab))
    /\ deleted0 = DeletedOf(RemoteListing(server), LocalEtags(dbRunStart, ab))

C11_Witness ==
  /\ pc = "save"
  /\ pos > Len(abDoc)
  /\ Len(abDoc) = 2
  /\ abDoc[1].vcf = "v4"
  /\ ~Unusable(abDoc[2])
  /\ \E id \in DOMAIN db : db[id].etag = abDoc[2].etag

\* C12: when resolveAddressBook has returned, the Collection is persisted
\* with the source tag and the URL of the configuration; its token is the one
\* stored before when the ctag request failed or gave no token, and the
\* server's token when the request gave one; the run goes on to the listing
\* request, and a run that succeeds leaves the Collection so tagged.
C12_CtagAdvisory ==
  /\ pc = "listing" =>
       /\ ab = BookId(sourceId)
       /\ ab \in DOMAIN books
       /\ books[ab].source = EXTERNAL_CARDDAV_SOURCE
       /\ books[ab].url = sourceUrl
       /\ books[ab].accountId = accountId
       /\ ctagLog.req \in {"failed", "empty", "ok"}
       /\ ctagLog.req \in {"failed", "empty"} => books[ab].ctag = ctagLog.before
       /\ ctagLog.req = "ok" =>
            books[ab].ctag = ctagLog.token /\ ctagLog.token # ""
  /\ RunSucceeded =>
       /\ ab \in DOMAIN books
       /\ books[ab].source = EXTERNAL_CARDDAV_SOURCE
       /\ books[ab].url = sourceUrl

\* a run whose ctag request did not give a token (the stored token is an
\* older one than the server's) has ended with success
C12_Witness ==
  /\ RunSucceeded
  /\ books[ab].ctag # ""
  /\ books[ab].ctag # ServerCtag(nextEtag)
  /\ result.success

C15_StepOrder ==
  [][/\ pc' # pc =>
          \/ pc \in {"idle", "done"} /\ pc' = "resolve"
          \/ pc = "resolve" /\ pc' = "listing" /\ BookId(sourceId) \in DOMAIN books'
          \/ pc = "listing" /\ pc' = "local" /\ reqCount' = reqCount + 1
          \/ pc = "local" /\ pc' = "batches" /\ batch' = 0 /\ commits' = 0
          \/ /\ pc = "batches" /\ pc' = "begin"
             /\ commits = batch
             /\ batch' = batch + 1
             /\ fetchLog' = Append(fetchLog, chunks[batch'])
             /\ ~tx.open
          \/ pc = "begin" /\ pc' = "sweep" /\ ~tx.open /\ tx'.open
          \/ /\ pc = "sweep" /\ pc' = "save"
             /\ tx.open
             /\ sweepLog' # sweepLog => batch = 1
          \/ /\ pc = "save" /\ pc' = "batches"
             /\ pos > Len(abDoc)
             /\ tx.open /\ ~tx'.open
             /\ commits' = commits + 1 /\ commits' = batch
          \/ /\ pc = "batches" /\ pc' = "finish"
             /\ batch = Len(chunks) /\ commits = Len(chunks)
             /\ ~tx.open
             /\ sweepLog' # sweepLog => chunks = <<>>
          \/ pc = "finish" /\ pc' = "done" /\ result'.success
          \/ /\ pc \in {"resolve", "listing", "local", "batches", "sweep", "save"}
             /\ pc' = "thrown"
             /\ ~tx'.open
          \/ pc = "thrown" /\ pc' = "done" /\ ~result'.success
     /\ (pc' = pc /\ workerVars' # workerVars) =>
          \/ pc = "save" /\ pos' = pos + 1 /\ pos <= Len(abDoc) /\ tx.open
          \/ /\ pc \in {"idle", "done"}
             /\ editsLeft' = editsLeft - 1
             /\ UNCHANGED <<books, db, result>>
     /\ pc = "done" =>
          \/ pc' = "resolve"
          \/ UNCHANGED <<books, db, result, reqCount, writeCount>>
     /\ fetchLog' # fetchLog => (pc' = "resolve" \/ pc = "batches")
     /\ (commits' # commits /\ pc' # "resolve") => pc = "save"]_vars

C15_Witness ==
  /\ RunSucceeded
  /\ commits = 3
  /\ Len(fetchLog) = 3
  /\ sweepLog # <<>>

\* the rows of the collection that carry etag e
ItemRows(dbNow, e) ==
  {id \in DOMAIN dbNow : dbNow[id].bookId = ab /\ dbNow[id].etag = e}

\* the e-mail entries of a card that have a value
EmailCount(vcf) ==
  Cardinality({i \in 1..Len(VCard(vcf).emails) : VCard(vcf).emails[i] # ""})

\* when the run started, the item at href h was in the collection under its
\* present ids with an etag e1 other than its present one, from a payload
\* with the same unique id and the same e-mails
Reingested(h, e1) ==
  /\ RowIdsOf(server, h) # {}
  /\ e1 # server[h].etag
  /\ \A id \in RowIdsOf(server, h) :
       /\ id \in DOMAIN dbRunStart
       /\ dbRunStart[id].bookId = ab
       /\ dbRunStart[id].etag = e1
       /\ dbRunStart[id].info.href = h
       /\ VCard(dbRunStart[id].info.vcf).uid = VCard(server[h].vcf).uid
       /\ VCard(dbRunStart[id].info.vcf).emails = VCard(server[h].vcf).emails

\* C16: an item with k e-mail addresses (entries with a value) that was in
\* the collection with etag e1 and now has etag e2, its unique id and e-mails
\* the same, has after the next successful run exactly k rows, with the ids
\* it had, all carrying e2, and no row of the collection carries e1.
C16_ReingestOverwrites ==
  RunSucceeded =>
    \A h \in DOMAIN server : \A e1 \in local :
      Reingested(h, e1) =>
        /\ ItemRows(db, server[h].etag) = RowIdsOf(server, h)
        /\ Cardinality(ItemRows(db, server[h].etag)) = EmailCount(server[h].vcf)
        /\ ItemRows(db, e1) = {}

\* C17: once needed and deleted are computed, and to the end of a run that
\* succeeds, every row the collection had at the start of the run whose etag
\* is both local and remote is still there with every field as it was, and
\* its path is in no content-fetch request of the run.
C17_UnchangedUntouched ==
  Reconciled =>
    \A id \in DOMAIN dbRunStart :
      (/\ dbRunStart[id].bookId = ab
       /\ dbRunStart[id].etag \in local \cap DOMAIN remote) =>
        /\ id \in DOMAIN db
        /\ db[id] = dbRunStart[id]
        /\ \A b \in 1..Len(fetchLog) :
             remote[dbRunStart[id].etag] \notin Range(fetchLog[b])

\* C13: with two workers on one store, a step of the worker of one source
\* never creates, deletes, changes or re-parents a Contact row of the other
\* source's collection: every row that belongs to another collection before
\* the step is there unchanged after it, and every row there after the step
\* that belongs to another collection was there before.
C13_PeerIsolation ==
  [][/\ \A id \in DOMAIN peerDb :
          peerDb[id].bookId # BookId(actor') =>
            id \in DOMAIN peerDb' /\ peerDb'[id] = peerDb[id]
     /\ \A id \in DOMAIN peerDb' :
          peerDb'[id].bookId # BookId(actor') =>
            id \in DOMAIN peerDb /\ peerDb[id] = peerDb'[id]]_vars

\* C18: the ids the workers have derived are in one-to-one correspondence
\* with the (source id, unique-id-or-path, e-mail index) triples they were
\* derived from: the same id never comes from two different triples.
C18_IdInjective ==
  \A s1, s2 \in DOMAIN peers :
    \A p \in peers[s1].derived : \A q \in peers[s2].derived :
      p.id = q.id => (s1 = s2 /\ p.key = q.key /\ p.i = q.i)

\* runForAddressBook() when nothing fails, from the Contact table dbStart and
\* the remote collection srv: each batch sweeps what is left of the stale
\* list and upserts its response; the final pass deletes what is still listed
RECURSIVE RunBatches(_, _, _, _, _)
RunBatches(srv, dbNow, stale, chunkList, k) ==
  IF k > Len(chunkList)
  THEN DeleteAll(dbNow, BookId(sourceId), stale)
  ELSE CHOOSE out \in
         {RunBatches(srv, saved, <<>>, chunkList, k + 1) :
            saved \in {SaveNodes(sourceId, accountId, swept, BookId(sourceId), doc) :
                         swept \in {DeleteAll(dbNow, BookId(sourceId), stale)},
                         doc \in {Multiget(srv, chunkList[k])}}} :
         TRUE

RunResult(dbStart, srv) ==
  LET r == RemoteListing(srv)
      l == LocalEtags(dbStart, BookId(sourceId))
  IN CHOOSE out \in
       {RunBatches(srv, dbStart, stale, chunkList, 1) :
          stale \in {DeletedOf(r, l)},
          chunkList \in {NeededChunks(NeededOf(r, l))}} :
       TRUE

C19_FinalPassRetried ==
  /\ pc = "done"
  /\ result.success
  /\ retry.on
  /\ retry.inFinal
  /\ dbRunStart # retry.db0
  /\ db # dbRunStart

====
